---- MODULE Spec2Model ----
(***************************************************************************)
(* Model of minimal-mcp-v2: the AsyncRancher HTTP client wrapper           *)
(* (rancher_client.py), the two tools built on it (tools/rancher_tools.py),*)
(* the process-wide client singleton and the loading of the settings from  *)
(* the environment (config.py).                                            *)
(*                                                                         *)
(* One tool invocation (or one direct client call) is a sequential         *)
(* coroutine.  Its position is pc; the points where it waits for the       *)
(* remote service (the request of one retry-loop iteration) and where the  *)
(* async generator rancher_list_all is suspended at its yield are the      *)
(* steps of the state machine.  Everything a coroutine does between two    *)
(* such points happens in one step.                                        *)
(*                                                                         *)
(* Strings are TLA+ strings; the few string operations that look inside a  *)
(* string (":" in s, s.startswith("c-")) work on its spelling, Spell(s).   *)
(* A URL is [path, cursor]: the path as its sequence of segments, and the  *)
(* paging position that a next-link carries (0: none).  Python's None is   *)
(* the string None for optional strings and JNull for optional JSON lists. *)
(* Durations are in milliseconds.                                          *)
(***************************************************************************)
EXTENDS Integers, Sequences, FiniteSets, TLC

VARIABLES
    max_retries,        \* settings.MAX_RETRIES, AsyncRancher.max_retries
    base_path,          \* path part of settings.RANCHER_URL, as segments
    pages,              \* remote: the chain of pages of /v3/clusters
    rancher_singleton,  \* _rancher_singleton: 0 (None) or a handle
    client,             \* client[h]: AsyncRancher._client of handle h, 0 (None) or a pool
    pools,              \* pools[p]: "open" or "closed", one entry per pool ever created
    closing,            \* handles whose close() is suspended in _client.aclose()
    returned,           \* history: handles get_rancher returned since the last aclose_rancher
    created,            \* history: pools created since the last aclose_rancher
    calls,              \* history: number of singleton calls made (bounded)
    op,                 \* the operation invoked
    arg_cluster,        \* k8s_pods: cluster
    arg_namespace,      \* k8s_pods: namespace (None when not passed)
    self,               \* the handle the invocation works on
    pc,                 \* "idle", "request", "returned", "yield", "done"
    caller,             \* who called _request
    url,                \* _request: url
    params,             \* _request: params ("limit" or "none")
    attempt,            \* _request: attempt
    last_exc,           \* _request: last_exc
    nreq,               \* history: requests issued by the current _request call
    delays,             \* history: backoff delays slept by the current _request call
    last_out,           \* history: outcome of the latest request
    resp,               \* the response the latest _request call returned
    items,              \* rancher_list_all: items of the current page
    idx,                \* rancher_list_all: position of the item yielded
    next_url,           \* rancher_list_all: next link of the current page
    yielded,            \* history: items rancher_list_all has yielded
    fetched,            \* history: URLs of the pages fetched successfully
    list_ended,         \* history: rancher_list_all ran to its end
    pod_url,            \* history: URL of the pod request (NoUrl: none issued)
    cid,                \* list_pods: cid
    clusters,           \* rancher_clusters: clusters
    result,             \* outcome of the invocation
    environ,            \* os.environ: the variables that are set, as texts
    settings,           \* config.settings: the outcome of Settings()
    tasks               \* concurrent tasks: position and handle held by each

vars == <<max_retries, base_path, pages, rancher_singleton, client, pools,
          closing, returned, created, calls, op, arg_cluster, arg_namespace,
          self, pc, caller, url, params, attempt, last_exc, nreq, delays,
          last_out, resp, items, idx, next_url, yielded, fetched, list_ended,
          pod_url, cid, clusters, result, environ, settings, tasks>>

(***************************************************************************)
(* Bounds of the model.                                                    *)
(***************************************************************************)
MaxRetries == 3
MaxPages == 3
MaxCalls == 7
NTasks == 4

(***************************************************************************)
(* Values.                                                                 *)
(***************************************************************************)
None == "<None>"
JNull == [t |-> "null"]
JList(v) == [t |-> "list", v |-> v]
NoUrl == [path |-> <<>>, cursor |-> -1]
NoExc == [type |-> "None", msg |-> "", status |-> 0, attempt |-> 0, arg |-> ""]
NoResp == [status |-> 0, body |-> JNull]
NoResult == [kind |-> "none", value |-> <<>>, exc |-> NoExc]

Range(f) == {f[i] : i \in DOMAIN f}

\* d.get(k, default) on a JSON object; {} is the object without fields.
EmptyDict == [k \in {} |-> None]
Get(d, k, default) == IF k \in DOMAIN d THEN d[k] ELSE default

\* The spelling of the strings passed as a cluster reference.
Spell(s) ==
    CASE s = "c-abc12" -> <<"c", "-", "a", "b", "c", "1", "2">>
      [] s = "local:x" -> <<"l", "o", "c", "a", "l", ":", "x">>
      [] s = "prod"    -> <<"p", "r", "o", "d">>
      [] s = "cx"      -> <<"c", "x">>
      [] s = ""        -> <<>>
      [] OTHER         -> <<"?">>

ClusterRefs == {"c-abc12", "local:x", "prod", "cx"}
Namespaces == {None, "", "default"}

\* Python truthiness of an optional string.
Truthy(s) == s # None /\ s # ""

(***************************************************************************)
(* The remote service: cluster records, pages, pod lists, statuses.        *)
(***************************************************************************)
\* A cluster's id, name, displayName and state are read with c.get(key):
\* None stands for a field that is missing (or null).  Its
\* rancherKubernetesEngineConfig is read with "c.get(key) or {}": EmptyDict
\* stands for a config that is missing, null or {}.
K_prod == [id |-> "c-abc12", name |-> "prod", displayName |-> None,
           state |-> "active",
           rancherKubernetesEngineConfig |-> [kubernetesVersion |-> "v1.27.6"]]
K_disp == [id |-> "c-disp", name |-> "x", displayName |-> "prod",
           state |-> None, rancherKubernetesEngineConfig |-> EmptyDict]
K_noid == [id |-> None, name |-> "prod", displayName |-> "prod",
           state |-> "active",
           rancherKubernetesEngineConfig |-> [ignoreDockerVersion |-> "true"]]
K_dev  == [id |-> "c-dev", name |-> "local:x", displayName |-> "cx",
           state |-> "provisioning",
           rancherKubernetesEngineConfig |-> [kubernetesVersion |-> "v1.28.2"]]

PageData == {JNull, JList(<<K_dev, K_prod>>), JList(<<K_noid, K_disp>>)}

RetryableStatuses == {429, 500, 502, 503, 504}
Statuses == {200, 404, 501} \cup RetryableStatuses

\* Pods as the Kubernetes API serialises them: an optional field that has no
\* value is left out of the JSON object ("status", "containerStatuses" and
\* "ready" may be missing), never sent as null.
Pod_a ==
    [metadata |-> [name |-> "a", namespace |-> "default",
                   creationTimestamp |-> "t1"],
     status |-> [phase |-> "Running",
                 containerStatuses |->
                     <<[ready |-> TRUE], [ready |-> FALSE], [ready |-> TRUE]>>]]
Pod_b == [metadata |-> [name |-> "b"]]
Pod_c == [metadata |-> [name |-> "c", namespace |-> "kube-system"],
          status |-> [phase |-> "Pending"]]
Pod_d ==
    [metadata |-> [name |-> "d"],
     status |-> [phase |-> "Running",
                 containerStatuses |-> <<[name |-> "init"], [ready |-> TRUE]>>]]
PodLists == {<<>>, <<Pod_a, Pod_b>>, <<Pod_c, Pod_d, Pod_a>>}

(***************************************************************************)
(* Pure helpers.                                                           *)
(***************************************************************************)
\* sub in s, for a one-character sub.
Contains(s, ch) == ch \in Range(Spell(s))

\* s.startswith(prefix), prefix given by its spelling.
StartsWith(s, prefix) ==
    /\ Len(Spell(s)) >= Len(prefix)
    /\ SubSeq(Spell(s), 1, Len(prefix)) = prefix

\* Mutant of LooksLikeId: the ":" test is missing.
LooksLikeId_prefix_only(name_or_id) == StartsWith(name_or_id, <<"c", "-">>)

\* resolve_cluster_id's test "looks like an ID".
LooksLikeId(name_or_id) ==
    Contains(name_or_id, ":") \/ StartsWith(name_or_id, <<"c", "-">>)

\* A path or reference: abs says whether it starts with "/".
Ref(abs, segs) == [abs |-> abs, segs |-> segs]

\* path.lstrip("/")
lstrip(ref) == [ref EXCEPT !.abs = FALSE]

\* base + path, two strings concatenated, base ending in "/".
Concat(base, ref) == [abs |-> base.abs, segs |-> base.segs \o ref.segs]

\* Mutant of urljoin: every reference is appended to the base path.
urljoin_append(base, ref) == base \o ref.segs

\* The path of urljoin(self.base_url + "/", ref): a reference that starts
\* with "/" replaces the path of the base URL, any other is appended to it.
\* (No segment of the model is "." or "..".)
urljoin(base, ref) == IF ref.abs THEN ref.segs ELSE base \o ref.segs

\* _k8s_base: f"/k8s/clusters/{cluster_id}/"
_k8s_base(cluster_id) == Ref(TRUE, <<"k8s", "clusters", cluster_id>>)

\* list_pods' choice of path.
PodsPath(namespace) ==
    IF ~Truthy(namespace)
    THEN Ref(FALSE, <<"api", "v1", "pods">>)
    ELSE Ref(FALSE, <<"api", "v1", "namespaces", namespace, "pods">>)

\* Mutant of Backoff: the exponent is attempt, not attempt - 1.
Backoff_exponent_off_by_one(a) == 250 * 2 ^ a

\* The delay slept after a failed attempt: 0.25 * 2 ** (attempt - 1) seconds.
Backoff(a) == 250 * 2 ^ (a - 1)

\* An attempt's outcome: a transport error, or a response with a status.
Outcome(te, status, body) == [te |-> te, status |-> status, body |-> body]

\* Mutant of RetryableStatus: 429 and every 5xx are retried.
RetryableStatus_any_5xx(status) == status = 429 \/ status >= 500

\* _request's test for a response it retries.
RetryableStatus(status) == status \in RetryableStatuses

\* What the except clause of _request catches for an outcome.
Retryable(out) == out.te \/ RetryableStatus(out.status)

\* The exception an attempt's failure becomes.
AttemptExc(out, a) ==
    IF out.te
    THEN [type |-> "TransportError", msg |-> "", status |-> 0, attempt |-> a, arg |-> ""]
    ELSE [type |-> "HTTPStatusError", msg |-> "retryable status",
          status |-> out.status, attempt |-> a, arg |-> ""]

\* Mutant of Caught: the first failure is kept.
Caught_first(prev, e) == IF prev = NoExc THEN e ELSE prev

\* The value last_exc takes when the failure e is caught.
Caught(prev, e) == e

AssertionError(msg) ==
    [type |-> "AssertionError", msg |-> msg, status |-> 0, attempt |-> 0, arg |-> ""]

ValueError(msg, arg) ==
    [type |-> "ValueError", msg |-> msg, status |-> 0, attempt |-> 0, arg |-> arg]

\* Mutant of IsErrorStatus: raise_for_status is not called.
IsErrorStatus_never(status) == FALSE

\* httpx's Response.raise_for_status: the statuses that make it raise.
IsErrorStatus(status) == status >= 400

StatusError(status) ==
    [type |-> "HTTPStatusError", msg |-> "raise_for_status", status |-> status,
     attempt |-> 0, arg |-> ""]

\* data.get("data") or []
DataOrEmpty(data) == IF data = JNull \/ data.v = <<>> THEN <<>> ELSE data.v

\* response.get("items", [])
ItemsOrEmpty(its) == IF its = JNull THEN <<>> ELSE its.v

\* Mutant of NoNext: the next link is never followed.
NoNext_always(nx) == TRUE

\* "not next_url"
NoNext(nx) == nx = NoUrl

\* Mutant of Matches: the display name is not compared.
Matches_name_only(c, name_or_id) == c.name = name_or_id

\* resolve_cluster_id's test of one cluster.
Matches(c, name_or_id) == c.name = name_or_id \/ c.displayName = name_or_id

\* d or {}
OrEmptyDict(d) == IF DOMAIN d = {} THEN EmptyDict ELSE d

\* Mutant of ClusterInfo: the version is read from the cluster itself.
ClusterInfo_top_level_version(c) ==
    [id |-> c.id, name |-> c.name, displayName |-> c.displayName,
     state |-> c.state, version |-> Get(c, "kubernetesVersion", None)]

\* rancher_clusters' projection of one cluster (lines 12-18).
ClusterInfo(c) ==
    [id |-> c.id, name |-> c.name, displayName |-> c.displayName,
     state |-> c.state,
     version |-> Get(OrEmptyDict(c.rancherKubernetesEngineConfig),
                     "kubernetesVersion", None)]

\* pod.get('status', {}).get('containerStatuses', [])
ContainerStatuses(pod) ==
    Get(Get(pod, "status", EmptyDict), "containerStatuses", <<>>)

\* Mutant of ReadyCount: every container is counted, ready or not.
ReadyCount_all(pod) == Len(ContainerStatuses(pod))

\* k8s_pods' projection of one pod (lines 37-43).
\* sum(1 for c in ... if c.get('ready'))
ReadyCount(pod) ==
    Cardinality({i \in DOMAIN ContainerStatuses(pod) :
                    Get(ContainerStatuses(pod)[i], "ready", FALSE)})

\* len(...)
TotalCount(pod) == Len(ContainerStatuses(pod))

PodInfo(pod) ==
    [name |-> Get(Get(pod, "metadata", EmptyDict), "name", None),
     namespace |-> Get(Get(pod, "metadata", EmptyDict), "namespace", None),
     ready |-> ToString(ReadyCount(pod)) \o "/" \o ToString(TotalCount(pod)),
     status |-> Get(Get(pod, "status", EmptyDict), "phase", None),
     age |-> Get(Get(pod, "metadata", EmptyDict), "creationTimestamp", None)]

\* The URL of the first page of a listing, and the page the remote serves
\* for a listing URL.
ListUrl(base) == [path |-> urljoin(base, lstrip(Ref(TRUE, <<"v3", "clusters">>))), cursor |-> 0]
PageAt(pp, u) == pp[u.cursor + 1]

\* The chains of pages the remote may hold: page k links to page k+1, the
\* last page carries no next link.
ChainOf(base, datas) ==
    [k \in 1..Len(datas) |->
        [data |-> datas[k],
         next |-> IF k < Len(datas)
                  THEN [path |-> base \o <<"v3", "clusters">>, cursor |-> k]
                  ELSE NoUrl]]

DataSeqs == UNION {[1..n -> PageData] : n \in 1..MaxPages}

(***************************************************************************)
(* Texts of the environment, and their conversions.  A text is the         *)
(* sequence of its characters; the texts of the model are made of digits,  *)
(* "+", "-", ".", "/" and letters (no blanks, underscores or exponents).   *)
(***************************************************************************)
DigitChars == <<"0", "1", "2", "3", "4", "5", "6", "7", "8", "9">>
IsDigit(ch) == ch \in Range(DigitChars)
DigitVal(ch) == CHOOSE d \in 0..9 : DigitChars[d + 1] = ch
AllDigits(t) == \A i \in DOMAIN t : IsDigit(t[i])

\* The number a text of digits spells (0 for the empty text).
RECURSIVE Num(_)
Num(t) ==
    IF t = <<>> THEN 0
    ELSE 10 * Num(SubSeq(t, 1, Len(t) - 1)) + DigitVal(t[Len(t)])

\* Mutant of rstrip: one trailing character is removed, not all of them.
rstrip_one(t, ch) ==
    IF t # <<>> /\ t[Len(t)] = ch THEN SubSeq(t, 1, Len(t) - 1) ELSE t

\* t.rstrip(ch)
RECURSIVE rstrip(_, _)
rstrip(t, ch) ==
    IF t # <<>> /\ t[Len(t)] = ch
    THEN rstrip(SubSeq(t, 1, Len(t) - 1), ch)
    ELSE t

\* An optional sign, and the text after it.
Signed(t) == t # <<>> /\ t[1] \in {"+", "-"}
Unsigned(t) == IF Signed(t) THEN Tail(t) ELSE t
SignOf(t) == IF t # <<>> /\ t[1] = "-" THEN -1 ELSE 1

\* int(t): ok says whether the text is an integer literal (a ValueError is
\* raised when it is not), v is its value.
int(t) ==
    IF Unsigned(t) # <<>> /\ AllDigits(Unsigned(t))
    THEN [ok |-> TRUE, v |-> SignOf(t) * Num(Unsigned(t))]
    ELSE [ok |-> FALSE, v |-> 0]

\* The position of the first "." of a text (Len + 1: none).
PointAt(t) ==
    IF \E i \in DOMAIN t : t[i] = "."
    THEN CHOOSE i \in DOMAIN t : t[i] = "." /\ \A j \in 1..(i - 1) : t[j] # "."
    ELSE Len(t) + 1

\* Up to three decimals as thousandths.
Thousandths(t) ==
    CASE Len(t) = 0 -> 0
      [] Len(t) = 1 -> 100 * Num(t)
      [] Len(t) = 2 -> 10 * Num(t)
      [] OTHER -> Num(SubSeq(t, 1, 3))

\* float(t): ok says whether the text is a decimal literal (a ValueError is
\* raised when it is not), v is its value in thousandths.
float(t) ==
    LET u == Unsigned(t)
        whole == SubSeq(u, 1, PointAt(u) - 1)
        decimals == SubSeq(u, PointAt(u) + 1, Len(u))
    IN IF AllDigits(whole) /\ AllDigits(decimals) /\ Len(whole) + Len(decimals) >= 1
       THEN [ok |-> TRUE,
             v |-> SignOf(t) * (1000 * Num(whole) + Thousandths(decimals))]
       ELSE [ok |-> FALSE, v |-> 0]

\* None where a text is expected.
NoText == <<None>>

\* No Settings() has run; Settings() raised exception exc; the settings
\* object Settings() built.
NotLoaded ==
    [kind |-> "none", exc |-> "", RANCHER_URL |-> <<>>, RANCHER_TOKEN |-> <<>>,
     RANCHER_CA_BUNDLE |-> NoText, HTTP_TIMEOUT |-> 0, MAX_RETRIES |-> 0]
SettingsError(exc) == [NotLoaded EXCEPT !.kind = "error", !.exc = exc]

\* Settings.__init__ (lines 12-20).
Settings(env) ==
    LET base_url == rstrip(Get(env, "RANCHER_URL", <<>>), "/")
        auth_token == Get(env, "RANCHER_TOKEN", <<>>)
        ca == Get(env, "RANCHER_CA_BUNDLE", NoText)
        timeout == float(Get(env, "HTTP_TIMEOUT", <<"1", "5">>))
        retries == int(Get(env, "MAX_RETRIES", <<"3">>))
    IN IF ~timeout.ok \/ ~retries.ok THEN SettingsError("ValueError")
       ELSE IF base_url = <<>> \/ auth_token = <<>> THEN SettingsError("RuntimeError")
       ELSE [kind |-> "ok", exc |-> "", RANCHER_URL |-> base_url,
             RANCHER_TOKEN |-> auth_token, RANCHER_CA_BUNDLE |-> ca,
             HTTP_TIMEOUT |-> timeout.v, MAX_RETRIES |-> retries.v]

(***************************************************************************)
(* The state as one record, so that the code's operations compose: each    *)
(* operator below takes the state and yields the state after it.           *)
(***************************************************************************)
State ==
    [max_retries |-> max_retries, base_path |-> base_path, pages |-> pages,
     rancher_singleton |-> rancher_singleton, client |-> client, pools |-> pools,
     closing |-> closing, returned |-> returned, created |-> created,
     calls |-> calls, op |-> op, arg_cluster |-> arg_cluster,
     arg_namespace |-> arg_namespace, self |-> self, pc |-> pc,
     caller |-> caller, url |-> url, params |-> params, attempt |-> attempt,
     last_exc |-> last_exc, nreq |-> nreq, delays |-> delays,
     last_out |-> last_out, resp |-> resp, items |-> items, idx |-> idx,
     next_url |-> next_url, yielded |-> yielded, fetched |-> fetched,
     list_ended |-> list_ended, pod_url |-> pod_url, cid |-> cid,
     clusters |-> clusters, result |-> result, environ |-> environ,
     settings |-> settings, tasks |-> tasks]

Becomes(n) ==
    /\ max_retries' = n.max_retries /\ base_path' = n.base_path
    /\ pages' = n.pages /\ rancher_singleton' = n.rancher_singleton
    /\ client' = n.client /\ pools' = n.pools /\ closing' = n.closing
    /\ returned' = n.returned /\ created' = n.created /\ calls' = n.calls
    /\ op' = n.op /\ arg_cluster' = n.arg_cluster
    /\ arg_namespace' = n.arg_namespace /\ self' = n.self /\ pc' = n.pc
    /\ caller' = n.caller /\ url' = n.url /\ params' = n.params
    /\ attempt' = n.attempt /\ last_exc' = n.last_exc /\ nreq' = n.nreq
    /\ delays' = n.delays /\ last_out' = n.last_out /\ resp' = n.resp
    /\ items' = n.items /\ idx' = n.idx /\ next_url' = n.next_url
    /\ yielded' = n.yielded /\ fetched' = n.fetched
    /\ list_ended' = n.list_ended /\ pod_url' = n.pod_url /\ cid' = n.cid
    /\ clusters' = n.clusters /\ result' = n.result
    /\ environ' = n.environ /\ settings' = n.settings /\ tasks' = n.tasks

\* The invocation ends with exception e reaching the calling framework.
Raise(s, e) ==
    [s EXCEPT !.pc = "done",
              !.result = [kind |-> "error", value |-> <<>>, exc |-> e]]

\* The invocation ends returning v.
Return(s, kind, v) ==
    [s EXCEPT !.pc = "done",
              !.result = [kind |-> kind, value |-> v, exc |-> NoExc]]

(***************************************************************************)
(* The singleton: AsyncRancher.start, get_rancher.                         *)
(***************************************************************************)
\* Mutant of start: the pool is not created before start() returns.
start_deferred(s, h) == s

\* AsyncRancher.start on handle h: the pool is created when there is none.
start(s, h) ==
    IF s.client[h] = 0
    THEN [s EXCEPT !.client[h] = Len(s.pools) + 1,
                   !.pools = Append(@, "open"),
                   !.created = @ + 1]
    ELSE s

\* The test of _request's first line: the handle has its pool.
ClientStarted(s, h) == s.client[h] # 0

\* Mutant of get_rancher: the "is None" test is missing.
get_rancher_no_test(s) ==
    start([s EXCEPT !.rancher_singleton = Len(s.client) + 1,
                    !.client = Append(@, 0)],
          Len(s.client) + 1)

\* get_rancher: the handle it returns is rancher_singleton of the result.
get_rancher(s) ==
    IF s.rancher_singleton = 0
    THEN start([s EXCEPT !.rancher_singleton = Len(s.client) + 1,
                         !.client = Append(@, 0)],
               Len(s.client) + 1)
    ELSE s

(***************************************************************************)
(* _request: entry, and the end of the retry loop.                         *)
(***************************************************************************)
\* Lines 59-60: the loop is over without a response.
_request_exhausted(s) ==
    IF s.last_exc = NoExc
    THEN Raise(s, AssertionError(""))
    ELSE Raise(s, s.last_exc)

\* The head of the for loop: another iteration, or the loop is over.
_request_loop(s) ==
    IF s.attempt <= s.max_retries
    THEN [s EXCEPT !.pc = "request"]
    ELSE _request_exhausted(s)

\* Lines 46-48: the call of _request(method, u, params=p) by who.
_request(s, u, p, who) ==
    IF ~ClientStarted(s, s.self)
    THEN Raise(s, AssertionError("Client not started"))
    ELSE _request_loop([s EXCEPT !.caller = who, !.url = u, !.params = p,
                                 !.attempt = 1, !.last_exc = NoExc,
                                 !.nreq = 0, !.delays = <<>>,
                                 !.resp = NoResp])

(***************************************************************************)
(* k8s_get, list_pods and k8s_pods after the cluster is resolved.          *)
(***************************************************************************)
\* k8s_pods lines 34-46: the projection of the PodList and the return.
k8s_pods_return(s) ==
    LET pods == ItemsOrEmpty(s.resp.body.items)
    IN Return(s, "list", [i \in 1..Len(pods) |-> PodInfo(pods[i])])

\* k8s_get lines 120-121, then list_pods and k8s_pods return.
k8s_get_response(s) ==
    IF IsErrorStatus(s.resp.status)
    THEN Raise(s, StatusError(s.resp.status))
    ELSE k8s_pods_return(s)

\* k8s_get lines 117-119.
k8s_get(s, cluster_id, k8s_path) ==
    LET u == [path |-> urljoin(s.base_path,
                               Concat(_k8s_base(cluster_id), lstrip(k8s_path))),
              cursor |-> 0]
    IN _request([s EXCEPT !.pod_url = u], u, "none", "k8s_get")

\* list_pods lines 128-129, with the resolved id.
list_pods_resolved(s, id) ==
    k8s_get([s EXCEPT !.cid = id], id, PodsPath(s.arg_namespace))

(***************************************************************************)
(* rancher_get.                                                            *)
(***************************************************************************)
\* rancher_get lines 69-70.
rancher_get_response(s) ==
    IF IsErrorStatus(s.resp.status)
    THEN Raise(s, StatusError(s.resp.status))
    ELSE Return(s, "json", s.resp.body)

\* rancher_get lines 67-68, for the path "/v3/clusters".
rancher_get(s) ==
    _request(s, ListUrl(s.base_path), "none", "rancher_get")

(***************************************************************************)
(* rancher_list_all, an async generator, and its two consumers.            *)
(***************************************************************************)
\* The generator is exhausted: the consumer's async for is over.
\* rancher_clusters returns its list (line 19); resolve_cluster_id raises
\* (line 105).
list_end(s) ==
    IF s.op = "rancher_clusters"
    THEN Return([s EXCEPT !.list_ended = TRUE], "list", s.clusters)
    ELSE Raise([s EXCEPT !.list_ended = TRUE],
               ValueError("Cluster not found", s.arg_cluster))

\* Mutant of rancher_list_all_advance: the listing ends after one page.
rancher_list_all_advance_stop(s) == list_end(s)

\* Lines 86-90: after the last item of a page.
rancher_list_all_advance(s) ==
    IF NoNext(s.next_url)
    THEN list_end(s)
    ELSE _request(s, s.next_url, "none", "rancher_list_all")

\* Lines 84-85: the generator yields the item at position i.
yield(s, i) ==
    [s EXCEPT !.pc = "yield", !.idx = i, !.yielded = Append(@, s.items[i])]

\* Mutant of rancher_list_all_resume: the next page is requested before
\* the last item of the page is handed out.
rancher_list_all_resume_early(s) ==
    IF s.idx < Len(s.items) - 1
    THEN yield(s, s.idx + 1)
    ELSE rancher_list_all_advance(s)

\* The consumer asks for the next item: the generator resumes after its yield.
rancher_list_all_resume(s) ==
    IF s.idx < Len(s.items)
    THEN yield(s, s.idx + 1)
    ELSE rancher_list_all_advance(s)

\* Lines 80-85: a page has arrived.
rancher_list_all_response(s) ==
    IF IsErrorStatus(s.resp.status)
    THEN Raise(s, StatusError(s.resp.status))
    ELSE LET s1 == [s EXCEPT !.items = DataOrEmpty(s.resp.body.data),
                             !.next_url = s.resp.body.next,
                             !.fetched = Append(@, s.url)]
         IN IF s1.items = <<>>
            THEN rancher_list_all_advance(s1)
            ELSE yield(s1, 1)

\* Lines 76-79: the first request of a listing of "/v3/clusters".
rancher_list_all(s) ==
    _request(s, ListUrl(s.base_path), "limit", "rancher_list_all")

\* rancher_clusters lines 12-18: the body of its async for.
rancher_clusters_body(s) ==
    rancher_list_all_resume(
        [s EXCEPT !.clusters = Append(@, ClusterInfo(s.items[s.idx]))])

\* resolve_cluster_id lines 101-104: the body of its async for.
resolve_cluster_id_body(s) ==
    LET c == s.items[s.idx]
    IN IF Matches(c, s.arg_cluster) /\ Truthy(c.id)
       THEN list_pods_resolved(s, c.id)
       ELSE rancher_list_all_resume(s)

\* resolve_cluster_id lines 97-100, called by list_pods line 127.
resolve_cluster_id(s) ==
    IF LooksLikeId(s.arg_cluster)
    THEN list_pods_resolved(s, s.arg_cluster)
    ELSE rancher_list_all(s)

(***************************************************************************)
(* _request: one iteration of the retry loop (lines 49-58), given the      *)
(* outcome of its request.                                                 *)
(***************************************************************************)
\* _request has returned s.resp (line 54): its caller goes on.
_request_return(s) ==
    CASE s.caller = "rancher_get" -> rancher_get_response(s)
      [] s.caller = "rancher_list_all" -> rancher_list_all_response(s)
      [] OTHER -> k8s_get_response(s)

_request_attempt(s, out) ==
    LET s1 == [s EXCEPT !.nreq = @ + 1, !.last_out = out]
    IN IF Retryable(out)
       THEN _request_loop(
                [s1 EXCEPT !.last_exc = Caught(@, AttemptExc(out, s.attempt)),
                           !.delays = Append(@, Backoff(s.attempt)),
                           !.attempt = @ + 1])
       ELSE [s1 EXCEPT !.pc = "returned",
                       !.resp = [status |-> out.status, body |-> out.body]]

\* What the remote may answer to the request in flight: the JSON of a 200
\* response, and of any other response a JSON object without the fields.
Bodies(s) ==
    IF s.caller = "k8s_get"
    THEN {[items |-> JList(pl)] : pl \in PodLists}
    ELSE {PageAt(s.pages, s.url)}

ErrorBody(s) ==
    IF s.caller = "k8s_get"
    THEN [items |-> JNull]
    ELSE [data |-> JNull, next |-> NoUrl]

NoOutcome == Outcome(FALSE, 0, JNull)

Outcomes(s) ==
    {Outcome(TRUE, 0, JNull)}
        \cup {Outcome(FALSE, st, ErrorBody(s)) : st \in Statuses \ {200}}
        \cup {Outcome(FALSE, 200, b) : b \in Bodies(s)}

(***************************************************************************)
(* The invocations.                                                        *)
(***************************************************************************)
\* "client = await get_rancher()", with the history of the singleton's use.
use_rancher(s) ==
    LET s1 == get_rancher(s)
    IN [s1 EXCEPT !.self = s1.rancher_singleton,
                  !.returned = @ \cup {s1.rancher_singleton},
                  !.calls = @ + 1]

\* rancher_clusters lines 9-11.
rancher_clusters(s) ==
    rancher_list_all(use_rancher([s EXCEPT !.op = "rancher_clusters"]))

\* k8s_pods lines 31-32.
k8s_pods(s, cluster, namespace) ==
    resolve_cluster_id(use_rancher(
        [s EXCEPT !.op = "k8s_pods", !.arg_cluster = cluster,
                  !.arg_namespace = namespace]))

\* A direct call of AsyncRancher.rancher_get on the shared handle.
call_rancher_get(s) ==
    rancher_get(use_rancher([s EXCEPT !.op = "rancher_get"]))

BasePaths == {<<>>, <<"rancher">>}

\* Nothing has been called yet: no singleton, no invocation.
Start ==
    /\ rancher_singleton = 0 /\ client = <<>> /\ pools = <<>>
    /\ closing = <<>> /\ returned = {} /\ created = 0 /\ calls = 0
    /\ op = "none" /\ arg_cluster = None /\ arg_namespace = None
    /\ self = 0 /\ pc = "idle" /\ caller = "none"
    /\ url = NoUrl /\ params = "none" /\ attempt = 0 /\ last_exc = NoExc
    /\ nreq = 0 /\ delays = <<>> /\ last_out = NoOutcome /\ resp = NoResp
    /\ items = <<>> /\ idx = 0 /\ next_url = NoUrl /\ yielded = <<>>
    /\ fetched = <<>> /\ list_ended = FALSE /\ pod_url = NoUrl
    /\ cid = None /\ clusters = <<>> /\ result = NoResult
    /\ tasks = [t \in 1..NTasks |-> [pc |-> "idle", handle |-> 0]]

\* The settings are given by max_retries and base_path: how they are loaded
\* from the environment is the subject of SpecConfig.
Configured == environ = EmptyDict /\ settings = NotLoaded

Init ==
    /\ max_retries \in 0..MaxRetries
    /\ base_path \in BasePaths
    /\ pages \in {ChainOf(base_path, d) : d \in DataSeqs}
    /\ Start
    /\ Configured

invoke_rancher_clusters ==
    /\ pc = "idle"
    /\ Becomes(rancher_clusters(State))

invoke_k8s_pods ==
    /\ pc = "idle"
    /\ \E c \in ClusterRefs, ns \in Namespaces : Becomes(k8s_pods(State, c, ns))

invoke_rancher_get ==
    /\ pc = "idle"
    /\ Becomes(call_rancher_get(State))

\* The request of the current iteration is answered.
request_attempt ==
    /\ pc = "request"
    /\ \E out \in Outcomes(State) : Becomes(_request_attempt(State, out))

\* _request returns its response to its caller.
request_returns ==
    /\ pc = "returned"
    /\ Becomes(_request_return(State))

\* The consumer of rancher_list_all handles the item it was given.
consume ==
    /\ pc = "yield"
    /\ IF op = "rancher_clusters"
       THEN Becomes(rancher_clusters_body(State))
       ELSE Becomes(resolve_cluster_id_body(State))

Next ==
    \/ invoke_rancher_clusters
    \/ invoke_k8s_pods
    \/ invoke_rancher_get
    \/ request_attempt
    \/ request_returns
    \/ consume

Spec == Init /\ [][Next]_vars

(***************************************************************************)
(* The life of the singleton: calls of get_rancher and aclose_rancher in   *)
(* any order.  close() is suspended while the pool closes; other calls may *)
(* run meanwhile.                                                          *)
(***************************************************************************)
\* AsyncRancher.close line 40 and aclose_rancher line 151, for handle h.
close_finish(s, h) ==
    [s EXCEPT !.client[h] = 0, !.rancher_singleton = 0,
              !.returned = {}, !.created = 0]

\* AsyncRancher.close lines 38-39 for handle h: with a pool, the pool is
\* closed and close() is suspended; without one, close() is over at once.
close(s, h) ==
    IF s.client[h] # 0
    THEN [s EXCEPT !.pools[s.client[h]] = "closed",
                   !.closing = Append(@, h),
                   !.returned = {}, !.created = 0]
    ELSE close_finish(s, h)

\* aclose_rancher lines 149-150.
aclose_rancher(s) ==
    IF s.rancher_singleton # 0 THEN close(s, s.rancher_singleton) ELSE s

RemoveAt(q, i) == SubSeq(q, 1, i - 1) \o SubSeq(q, i + 1, Len(q))

InitSingleton ==
    /\ max_retries = 3
    /\ base_path = <<>>
    /\ pages = ChainOf(<<>>, <<JNull>>)
    /\ Start
    /\ Configured

call_get_rancher ==
    /\ calls < MaxCalls
    /\ Becomes([use_rancher(State) EXCEPT !.op = "get_rancher"])

call_aclose_rancher ==
    /\ calls < MaxCalls
    /\ Becomes([aclose_rancher(State) EXCEPT !.op = "aclose_rancher",
                                             !.calls = @ + 1])

\* A suspended close() resumes and aclose_rancher finishes.
close_resume ==
    \E i \in DOMAIN closing :
        Becomes(close_finish([State EXCEPT !.closing = RemoveAt(@, i)],
                             closing[i]))

NextSingleton ==
    \/ call_get_rancher
    \/ call_aclose_rancher
    \/ close_resume

SpecSingleton == InitSingleton /\ [][NextSingleton]_vars

(***************************************************************************)
(* First use: NTasks tasks of one event loop, none of which has the handle *)
(* yet.  A task runs until it suspends.  get_rancher never suspends: its   *)
(* only await is of start(), which has no await of its own, so the call    *)
(* runs from its test to its return in one step.  A task that holds the    *)
(* handle enters _request at any later time and is suspended while its     *)
(* request is in flight.                                                   *)
(***************************************************************************)
\* Task t runs "client = await get_rancher()".
task_get_rancher(s, t) ==
    LET s1 == use_rancher(s)
    IN [s1 EXCEPT !.op = "get_rancher",
                  !.tasks[t] = [pc |-> "got", handle |-> s1.self]]

\* Task t enters _request on its handle: line 46, then the first request.
task_request(s, t) ==
    IF ~ClientStarted(s, s.tasks[t].handle)
    THEN [s EXCEPT !.tasks[t].pc = "failed"]
    ELSE [s EXCEPT !.tasks[t].pc = "request"]

\* The request of task t is answered.
task_response(s, t) == [s EXCEPT !.tasks[t].pc = "done"]

InitFirstUse ==
    /\ max_retries = 3
    /\ base_path = <<>>
    /\ pages = ChainOf(<<>>, <<JNull>>)
    /\ Start
    /\ Configured

run_get_rancher ==
    \E t \in 1..NTasks :
        tasks[t].pc = "idle" /\ Becomes(task_get_rancher(State, t))

run_request ==
    \E t \in 1..NTasks :
        tasks[t].pc = "got" /\ Becomes(task_request(State, t))

run_response ==
    \E t \in 1..NTasks :
        tasks[t].pc = "request" /\ Becomes(task_response(State, t))

NextFirstUse ==
    \/ run_get_rancher
    \/ run_request
    \/ run_response

SpecFirstUse == InitFirstUse /\ [][NextFirstUse]_vars

(***************************************************************************)
(* Loading the configuration: config.py is imported in a process whose     *)
(* environment holds any of the five variables.                            *)
(***************************************************************************)
Unset == <<"<unset>">>
UrlTexts ==
    {Unset, <<>>, <<"/">>, <<"/", "/">>, <<"h">>, <<"h", "/">>,
     <<"h", "/", "/">>, <<"h", "/", "r", "/">>}
TokenTexts == {Unset, <<>>, <<"t">>}
CaTexts == {Unset, <<"c", "a">>}
TimeoutTexts ==
    {Unset, <<>>, <<"1", "5">>, <<"2", ".", "5">>, <<"3", "0">>, <<"x">>}
RetriesTexts ==
    {Unset, <<>>, <<"3">>, <<"0">>, <<"5">>, <<"-", "1">>, <<"2", ".", "5">>,
     <<"x">>}

\* The environment in which the given variables are set.
Environ(vals) == [k \in {n \in DOMAIN vals : vals[n] # Unset} |-> vals[k]]

Environs ==
    {Environ([RANCHER_URL |-> u, RANCHER_TOKEN |-> t, RANCHER_CA_BUNDLE |-> c,
              HTTP_TIMEOUT |-> h, MAX_RETRIES |-> r]) :
        u \in UrlTexts, t \in TokenTexts, c \in CaTexts,
        h \in TimeoutTexts, r \in RetriesTexts}

InitConfig ==
    /\ max_retries = 3
    /\ base_path = <<>>
    /\ pages = ChainOf(<<>>, <<JNull>>)
    /\ Start
    /\ environ \in Environs
    /\ settings = NotLoaded

\* config.py line 22: settings = Settings()
import_config ==
    /\ settings.kind = "none"
    /\ Becomes([State EXCEPT !.settings = Settings(environ)])

NextConfig == import_config

SpecConfig == InitConfig /\ [][NextConfig]_vars

(***************************************************************************)
(* Properties.                                                             *)
(***************************************************************************)
\* The statuses _request is specified to retry, and the references
\* resolve_cluster_id is specified to take for an ID, written out.
SpecRetryable(out) == out.te \/ out.status \in {429, 500, 502, 503, 504}
SpecIdLike(s) == s \in {"c-abc12", "local:x"}
IsPrefix(a, b) == Len(a) <= Len(b) /\ SubSeq(b, 1, Len(a)) = a

\* The items of a chain of pages, concatenated in page order.
RECURSIVE AllItems(_)
AllItems(pp) ==
    IF pp = <<>> THEN <<>>
    ELSE (IF Head(pp).data = JNull THEN <<>> ELSE Head(pp).data.v)
             \o AllItems(Tail(pp))

\* The URLs of the pages of a chain, in order.
PageUrls(base, pp) ==
    [k \in 1..Len(pp) |->
        IF k = 1 THEN [path |-> base \o <<"v3", "clusters">>, cursor |-> 0]
        ELSE pp[k - 1].next]

\* A step that issues one request of the retry loop.
AttemptStep == pc = "request" /\ nreq' = nreq + 1

\* C1: when the first N-1 attempts of a _request call are retryable failures
\* and the N-th (1 <= N <= max_retries) is not, the call returns the N-th
\* response after exactly N requests and N-1 backoff delays, the k-th delay
\* being 0.25 * 2^(k-1) seconds; the loop goes on only after a retryable
\* failure.
C1_ReturnsNth ==
    /\ [](pc = "returned" =>
            /\ ~SpecRetryable(last_out)
            /\ resp = [status |-> last_out.status, body |-> last_out.body]
            /\ nreq \in 1..max_retries
            /\ delays = [k \in 1..(nreq - 1) |-> 250 * 2 ^ (k - 1)])
    /\ [][AttemptStep =>
            /\ (~SpecRetryable(last_out') => pc' = "returned")
            /\ (SpecRetryable(last_out') => pc' # "returned")]_vars

C1_Witness ==
    pc = "returned" /\ max_retries = 3 /\ nreq = 3 /\ delays = <<250, 500>>

\* C2: if every one of the max_retries (>= 1) attempts of a _request call is
\* a retryable failure, the call raises the failure of the last attempt and
\* has issued exactly max_retries requests; no call issues more.
C2_RaisesLast ==
    /\ nreq <= max_retries
    /\ (max_retries >= 1 /\ nreq = max_retries /\ SpecRetryable(last_out)) =>
            /\ pc = "done"
            /\ result.kind = "error"
            /\ result.exc.attempt = max_retries
            /\ result.exc.type = (IF last_out.te THEN "TransportError"
                                                 ELSE "HTTPStatusError")
            /\ result.exc.status = last_out.status
            /\ result.exc.msg # "raise_for_status"

C2_Witness ==
    /\ max_retries = 3 /\ nreq = 3 /\ pc = "done"
    /\ result.exc.type = "HTTPStatusError" /\ result.exc.status = 503
    /\ Len(fetched) = 1

C4_Pagination ==
    /\ IsPrefix(yielded, AllItems(pages))
    /\ list_ended =>
            /\ yielded = AllItems(pages)
            /\ fetched = PageUrls(base_path, pages)
            /\ pc = "done"
            /\ url = fetched[Len(fetched)]

C4_Witness ==
    /\ list_ended /\ op = "rancher_clusters" /\ Len(pages) = 3
    /\ Len(yielded) = 6 /\ result.kind = "list"

\* C5: resolve_cluster_id on a reference recognised as an ID returns it
\* unchanged without any request: the only requests of the invocation are
\* those of the pod fetch.
C5_IdUnchanged ==
    (op = "k8s_pods" /\ SpecIdLike(arg_cluster)) =>
        /\ cid = arg_cluster
        /\ caller = "k8s_get"
        /\ fetched = <<>> /\ yielded = <<>>
        /\ url = pod_url

C5_Witness ==
    /\ op = "k8s_pods" /\ arg_cluster = "local:x" /\ pc = "done"
    /\ result.kind = "list"
    /\ \E k \in DOMAIN pages : pages[k].data = JList(<<K_dev, K_prod>>)

\* The case of a cluster reference resolved by name.
ByName == op = "k8s_pods" /\ ~SpecIdLike(arg_cluster)

NameMatch(c) == c.name = arg_cluster \/ c.displayName = arg_cluster
HasId(c) == c.id # None /\ c.id # ""

\* The positions, in listing order, of the first cluster whose name or
\* display name is the reference, and of the first such cluster with an id.
FirstMatch ==
    {i \in DOMAIN AllItems(pages) :
        /\ NameMatch(AllItems(pages)[i])
        /\ \A j \in 1..(i - 1) : ~NameMatch(AllItems(pages)[j])}

FirstMatchWithId ==
    {i \in DOMAIN AllItems(pages) :
        /\ NameMatch(AllItems(pages)[i]) /\ HasId(AllItems(pages)[i])
        /\ \A j \in 1..(i - 1) :
              ~(NameMatch(AllItems(pages)[j]) /\ HasId(AllItems(pages)[j]))}

\* C6, as claimed: resolve_cluster_id returns the identifier of the first
\* cluster, in listing order, whose name or display name equals the input.
C6_FirstMatch ==
    (ByName /\ cid # None) =>
        \E i \in FirstMatch : cid = AllItems(pages)[i].id

\* C6, amended: resolve_cluster_id returns the identifier of the first
\* cluster, in listing order, whose name or display name equals the input
\* and whose identifier is not empty; it returns as soon as that cluster is
\* handed to it, and later matching clusters never change the result.
C6_FirstMatchWithId ==
    /\ [](ByName =>
            /\ (cid # None =>
                  \E i \in FirstMatchWithId : cid = AllItems(pages)[i].id)
            /\ \A i \in FirstMatchWithId :
                  /\ Len(yielded) <= i
                  /\ (Len(yielded) = i /\ pc # "yield") =>
                        cid = AllItems(pages)[i].id)
    /\ [][cid # None => cid' = cid]_vars

C6_Witness ==
    /\ ByName /\ arg_cluster = "prod" /\ cid = "c-disp" /\ pc = "done"
    /\ result.kind = "list" /\ Len(fetched) = 2 /\ Len(pages) = 3
    /\ pages[3].data = JList(<<K_dev, K_prod>>)

\* C7: for a reference not recognised as an ID that matches no cluster's
\* name or display name, resolve_cluster_id never returns an identifier (no
\* pod request follows); it raises "Cluster not found" naming the input,
\* only after every page has been fetched, and always once they have been.
C7_NotFound ==
    (ByName /\ FirstMatch = {}) =>
        /\ cid = None /\ pod_url = NoUrl /\ result.kind # "list"
        /\ (result.exc.type = "ValueError" \/ list_ended
               \/ (pc = "done" /\ Len(fetched) = Len(pages))) =>
              /\ pc = "done"
              /\ result.kind = "error"
              /\ result.exc =
                    [type |-> "ValueError", msg |-> "Cluster not found",
                     status |-> 0, attempt |-> 0, arg |-> arg_cluster]
              /\ fetched = PageUrls(base_path, pages)
              /\ yielded = AllItems(pages)

C7_Witness ==
    /\ ByName /\ FirstMatch = {} /\ arg_cluster = "cx" /\ pc = "done"
    /\ result.exc.type = "ValueError" /\ Len(pages) = 3
    /\ Len(yielded) = 4

\* C8: rancher_clusters and k8s_pods return a list only when every request
\* they made ended in a 2xx response: an invocation whose latest _request
\* call failed (no request, a transport error or a status other than 200)
\* ends in an error; a list returned by rancher_clusters holds the
\* projection of the items of every page, a list returned by k8s_pods that
\* of the pods of the 200 response.
C8_NoPartialResult ==
    /\ (pc = "done" /\ op \in {"rancher_clusters", "k8s_pods"}
           /\ (nreq = 0 \/ last_out.te \/ last_out.status # 200)) =>
          result.kind = "error"
    /\ (op = "rancher_clusters" /\ result.kind = "list") =>
          /\ fetched = PageUrls(base_path, pages)
          /\ Len(result.value) = Len(AllItems(pages))
          /\ \A i \in DOMAIN result.value :
                result.value[i].id = AllItems(pages)[i].id
    /\ (op = "k8s_pods" /\ result.kind = "list") =>
          /\ cid # None /\ url = pod_url
          /\ \E pl \in PodLists :
                /\ last_out.body = [items |-> JList(pl)]
                /\ Len(result.value) = Len(pl)
                /\ \A i \in DOMAIN pl :
                      result.value[i].name = pl[i].metadata.name
    /\ (result.kind = "error") => result.value = <<>>

C8_Witness ==
    /\ pc = "done" /\ op = "rancher_clusters" /\ Len(fetched) = 2
    /\ Len(clusters) = 4 /\ result.kind = "error"
    /\ result.exc.status = 404

\* C9: list_pods issues the pod request only after the cluster reference
\* is resolved to an ID, to /k8s/clusters/{id}/api/v1/namespaces/{ns}/pods
\* when a namespace is given and to /k8s/clusters/{id}/api/v1/pods when
\* none is; when the resolution fails no pod request is issued, and no
\* listing request follows the pod request.
C9_PodRequest ==
    /\ [](/\ (pod_url # NoUrl) =>
                /\ cid # None
                /\ ByName => (\E i \in DOMAIN yielded : yielded[i].id = cid)
                /\ ~ByName => cid = arg_cluster
                /\ pod_url.path =
                      (IF arg_namespace \in {None, ""}
                       THEN <<"k8s", "clusters", cid, "api", "v1", "pods">>
                       ELSE <<"k8s", "clusters", cid, "api", "v1",
                              "namespaces", arg_namespace, "pods">>)
          /\ (caller = "k8s_get") => (pod_url # NoUrl /\ url = pod_url)
          /\ (cid = None \/ result.exc.type = "ValueError") => pod_url = NoUrl)
    /\ [][pod_url # NoUrl => (fetched' = fetched /\ pod_url' = pod_url)]_vars

C9_Witness ==
    /\ op = "k8s_pods" /\ arg_cluster = "prod" /\ arg_namespace = "default"
    /\ cid = "c-abc12" /\ base_path = <<"rancher">> /\ pc = "returned"
    /\ caller = "k8s_get" /\ resp.status = 200
    /\ pod_url.path = <<"k8s", "clusters", "c-abc12", "api", "v1",
                        "namespaces", "default", "pods">>

\* A count between 0 and 3 written in decimal, and the ratio "r/t".
Digits == <<"0", "1", "2", "3">>
Ratio(r, t) == Digits[r + 1] \o "/" \o Digits[t + 1]

\* The containerStatuses entries of a pod of the response (none when the pod
\* has no status or its status has no containerStatuses), and how many of
\* the first n of them are ready.
StatusEntries(pod) ==
    IF "status" \notin DOMAIN pod THEN <<>>
    ELSE IF "containerStatuses" \notin DOMAIN pod.status THEN <<>>
    ELSE pod.status.containerStatuses

RECURSIVE ReadyAmong(_, _)
ReadyAmong(cs, n) ==
    IF n = 0 THEN 0
    ELSE ReadyAmong(cs, n - 1)
            + (IF "ready" \in DOMAIN cs[n] /\ cs[n].ready = TRUE THEN 1 ELSE 0)

\* C11: a list returned by k8s_pods holds one record per pod of the fetched
\* pod list, in list order, and the record's ready ratio is the string
\* "r/t", t being the number of containerStatuses entries of the pod and r
\* the number of them that are ready, so r <= t; a pod without status or
\* without containerStatuses gives "0/0".
C11_ReadyRatio ==
    (op = "k8s_pods" /\ result.kind = "list") =>
        \E pl \in PodLists :
            /\ last_out.body = [items |-> JList(pl)]
            /\ Len(result.value) = Len(pl)
            /\ \A i \in DOMAIN pl :
                  LET t == Len(StatusEntries(pl[i]))
                      r == ReadyAmong(StatusEntries(pl[i]), t)
                  IN /\ r <= t
                     /\ result.value[i].name = pl[i].metadata.name
                     /\ result.value[i].ready = Ratio(r, t)
                     /\ ("status" \notin DOMAIN pl[i]
                            \/ "containerStatuses" \notin DOMAIN pl[i].status)
                           => result.value[i].ready = "0/0"

C11_Witness ==
    /\ op = "k8s_pods" /\ pc = "done" /\ result.kind = "list"
    /\ last_out.body = [items |-> JList(<<Pod_c, Pod_d, Pod_a>>)]
    /\ [i \in 1..3 |-> result.value[i].ready] = <<"0/0", "1/2", "2/3">>
    /\ [i \in 1..3 |-> result.value[i].name] = <<"c", "d", "a">>

\* The fields of a record of rancher_clusters as claimed, and the Kubernetes
\* version a cluster of the listing carries (None: it carries none).
ClaimedFields == {"id", "name", "displayName", "state", "kubernetesVersion"}
VersionOf(c) ==
    IF "kubernetesVersion" \in DOMAIN c.rancherKubernetesEngineConfig
    THEN c.rancherKubernetesEngineConfig.kubernetesVersion
    ELSE None

\* C12, as claimed: every record rancher_clusters returns has the fields
\* id, name, displayName, state and kubernetesVersion.
C12_ClaimedFields ==
    (op = "rancher_clusters" /\ result.kind = "list") =>
        \A i \in DOMAIN result.value :
            /\ DOMAIN result.value[i] = ClaimedFields
            /\ result.value[i].kubernetesVersion = VersionOf(AllItems(pages)[i])

\* C12, amended: rancher_clusters returns one record per cluster of the
\* paged listing, in listing order, with the fields id, name, displayName,
\* state and version, version being the kubernetesVersion of the cluster's
\* rancherKubernetesEngineConfig; a field the cluster lacks is None in the
\* record, and handling a cluster never makes the invocation fail.
C12_Projection ==
    /\ [](op = "rancher_clusters" =>
            /\ Len(clusters) <= Len(yielded)
            /\ \A i \in DOMAIN clusters :
                  /\ DOMAIN clusters[i] =
                        {"id", "name", "displayName", "state", "version"}
                  /\ clusters[i].id = yielded[i].id
                  /\ clusters[i].name = yielded[i].name
                  /\ clusters[i].displayName = yielded[i].displayName
                  /\ clusters[i].state = yielded[i].state
                  /\ clusters[i].version = VersionOf(yielded[i])
            /\ result.kind = "list" =>
                  /\ result.value = clusters
                  /\ Len(clusters) = Len(AllItems(pages))
                  /\ yielded = AllItems(pages))
    /\ [][(pc = "yield" /\ op = "rancher_clusters") =>
            /\ Len(clusters') = Len(yielded)
            /\ result'.kind # "error"]_vars

C12_Witness ==
    /\ op = "rancher_clusters" /\ pc = "done" /\ result.kind = "list"
    /\ Len(pages) = 2 /\ Len(result.value) = 4
    /\ result.value[1] =
          [id |-> None, name |-> "prod", displayName |-> "prod",
           state |-> "active", version |-> None]
    /\ result.value[2].state = None /\ result.value[2].version = None
    /\ result.value[4].version = "v1.27.6"

\* The environment's base URL and auth token ("" when unset), a text made
\* of "/" only (what is left of it without its trailing slashes is empty),
\* and the texts of the model that are numbers and integers, with their
\* values (timeouts in thousandths).
EnvUrl == IF "RANCHER_URL" \in DOMAIN environ THEN environ.RANCHER_URL ELSE <<>>
EnvToken ==
    IF "RANCHER_TOKEN" \in DOMAIN environ THEN environ.RANCHER_TOKEN ELSE <<>>
OnlySlashes(t) == \A i \in DOMAIN t : t[i] = "/"
WithoutTrailingSlashes(t, u) ==
    /\ IsPrefix(t, u)
    /\ (t = <<>> \/ t[Len(t)] # "/")
    /\ \A i \in (Len(t) + 1)..Len(u) : u[i] = "/"
NumberTexts == {<<"1", "5">>, <<"2", ".", "5">>, <<"3", "0">>}
IntegerTexts == {<<"3">>, <<"0">>, <<"5">>, <<"-", "1">>}
NumberOf(t) ==
    CASE t = <<"1", "5">> -> 15000
      [] t = <<"2", ".", "5">> -> 2500
      [] t = <<"3", "0">> -> 30000
IntegerOf(t) ==
    CASE t = <<"3">> -> 3 [] t = <<"0">> -> 0 [] t = <<"5">> -> 5
      [] t = <<"-", "1">> -> -1
RequiredMissing == OnlySlashes(EnvUrl) \/ EnvToken = <<>>
BadNumber ==
    \/ "HTTP_TIMEOUT" \in DOMAIN environ /\ environ.HTTP_TIMEOUT \notin NumberTexts
    \/ "MAX_RETRIES" \in DOMAIN environ /\ environ.MAX_RETRIES \notin IntegerTexts

\* What a successful load yields: the base URL without its trailing
\* slashes, the token, and 15 seconds and 3 retries when these are unset.
LoadedAsSet ==
    /\ WithoutTrailingSlashes(settings.RANCHER_URL, EnvUrl)
    /\ settings.RANCHER_TOKEN = EnvToken
    /\ "HTTP_TIMEOUT" \notin DOMAIN environ => settings.HTTP_TIMEOUT = 15000
    /\ "MAX_RETRIES" \notin DOMAIN environ => settings.MAX_RETRIES = 3

\* C13, as claimed: loading the configuration fails exactly when the base
\* URL without its trailing slashes, or the auth token, is empty; otherwise
\* it succeeds with the stripped URL and the defaults 15 and 3.
C13_FailsExactly ==
    (settings.kind # "none") =>
        /\ (settings.kind = "error") <=> RequiredMissing
        /\ (settings.kind = "ok") => LoadedAsSet

\* C13, amended: loading the configuration fails (no settings object)
\* exactly when the base URL without its trailing slashes or the auth token
\* is empty, or HTTP_TIMEOUT is set to a text that is not a number, or
\* MAX_RETRIES is set to a text that is not an integer (the empty text
\* included); otherwise it succeeds with the stripped URL, the timeout and
\* retry count that are set, and 15 and 3 when they are unset.
C13_Settings ==
    (settings.kind # "none") =>
        /\ (settings.kind = "error") <=> (RequiredMissing \/ BadNumber)
        /\ (settings.kind = "error") =>
              /\ settings = [NotLoaded EXCEPT !.kind = "error",
                                              !.exc = settings.exc]
              /\ settings.exc = (IF BadNumber THEN "ValueError"
                                               ELSE "RuntimeError")
        /\ (settings.kind = "ok") =>
              /\ LoadedAsSet
              /\ "HTTP_TIMEOUT" \in DOMAIN environ =>
                    settings.HTTP_TIMEOUT = NumberOf(environ.HTTP_TIMEOUT)
              /\ "MAX_RETRIES" \in DOMAIN environ =>
                    settings.MAX_RETRIES = IntegerOf(environ.MAX_RETRIES)

C13_Witness ==
    /\ environ = [RANCHER_URL |-> <<"h", "/", "/">>, RANCHER_TOKEN |-> <<"t">>]
    /\ settings.kind = "ok"
    /\ settings.RANCHER_URL = <<"h">>
    /\ settings.HTTP_TIMEOUT = 15000 /\ settings.MAX_RETRIES = 3

\* The items of the first k pages, and a listing request being in progress.
ItemsUpTo(k) == AllItems(SubSeq(pages, 1, k))
ListingRequest == caller = "rancher_list_all" /\ pc \in {"request", "returned"}

\* C14: rancher_list_all is lazy.  While the request for a page is in
\* progress every item of the pages before it has been handed to the
\* consumer (and handled by it); while an item is with the consumer the
\* pages fetched are those up to the item's page and no more.  A consumer
\* that stops causes no further listing request: once resolve_cluster_id
\* has its match on page k, the pages fetched are the first k for good.
C14_Lazy ==
    /\ [](/\ ListingRequest =>
                /\ Len(fetched) < Len(pages)
                /\ url = PageUrls(base_path, pages)[Len(fetched) + 1]
                /\ yielded = ItemsUpTo(Len(fetched))
                /\ op = "rancher_clusters" => Len(clusters) = Len(yielded)
          /\ (pc = "yield") =>
                /\ Len(fetched) >= 1
                /\ Len(yielded) > Len(ItemsUpTo(Len(fetched) - 1))
                /\ Len(yielded) <= Len(ItemsUpTo(Len(fetched)))
          /\ (ByName /\ cid # None) =>
                /\ caller = "k8s_get"
                /\ \A i \in FirstMatchWithId :
                      /\ Len(yielded) = i
                      /\ i > Len(ItemsUpTo(Len(fetched) - 1))
                      /\ i <= Len(ItemsUpTo(Len(fetched))))
    /\ [][(op = "k8s_pods" /\ cid # None) =>
            (fetched' = fetched /\ yielded' = yielded)]_vars

C14_Witness ==
    /\ op = "k8s_pods" /\ arg_cluster = "cx" /\ cid = "c-dev" /\ pc = "done"
    /\ Len(pages) = 3 /\ Len(fetched) = 2 /\ Len(yielded) = 3
    /\ pages[1].data = JList(<<K_noid, K_disp>>)
    /\ pages[2].data = JList(<<K_dev, K_prod>>)
    /\ result.kind = "list"

\* C15: under every interleaving of first-use get_rancher calls by
\* concurrent tasks (no aclose_rancher), at most one connection pool is
\* created, every task gets the same handle, the handle a task holds has
\* its pool, open, from the moment get_rancher returned it, and no request
\* on it fails the "Client not started" check.
C15_FirstUse ==
    /\ created <= 1 /\ Len(pools) <= 1 /\ Len(client) <= 1
    /\ \A t \in 1..NTasks :
          /\ tasks[t].pc # "failed"
          /\ (tasks[t].pc # "idle") =>
                /\ tasks[t].handle = rancher_singleton
                /\ tasks[t].handle # 0
                /\ client[tasks[t].handle] # 0
                /\ pools[client[tasks[t].handle]] = "open"

C15_Witness ==
    /\ tasks[1].pc = "request" /\ tasks[2].pc = "got"
    /\ tasks[3].pc = "done" /\ tasks[4].pc = "request"
    /\ \A t \in 1..4 : tasks[t].handle = 1
    /\ pools = <<"open">> /\ created = 1 /\ calls = 4

\* The latest _request call of the invocation is over: it has returned its
\* response, or the invocation has gone on or ended after it.
CallOver ==
    op \in {"rancher_clusters", "k8s_pods", "rancher_get"}
        /\ pc \in {"returned", "yield", "done"}

\* C16, as claimed: a backoff delay occurs only between two attempts, so a
\* _request call that made k attempts has slept exactly k-1 delays when it
\* is over, also when every attempt failed.
C16_DelaysBetweenAttempts ==
    (CallOver /\ nreq >= 1) => Len(delays) = nreq - 1

\* C17, as claimed: for every max_retries >= 0 a _request call on a started
\* client issues at least one request, and when it is over it has returned
\* the response of its last attempt or raised the transport or
\* retryable-status failure of its last attempt.
C17_RequestOrFailure ==
    (CallOver /\ max_retries >= 0 /\ ClientStarted(State, self)) =>
        /\ nreq >= 1
        /\ \/ /\ resp # NoResp
               /\ ~last_out.te /\ resp.status = last_out.status
           \/ /\ pc = "done" /\ result.kind = "error"
               /\ result.exc.type \in {"TransportError", "HTTPStatusError"}
               /\ result.exc.msg # "raise_for_status"
               /\ result.exc.attempt = nreq
               /\ SpecRetryable(last_out)

\* Steps of the singleton's life.
GetStep == op' = "get_rancher" /\ calls' = calls + 1
AcloseStep == op' = "aclose_rancher" /\ calls' = calls + 1
CloseDone == Len(closing') < Len(closing)

\* C10: over the get_rancher calls made since the last aclose_rancher (none
\* in progress), exactly one pool has been created and every call returned
\* the same handle, whose pool exists and is open: the first call creates
\* handle and pool, the others change nothing.  aclose_rancher closes the
\* pool and, when it is over, the handle is cleared; aclose_rancher with no
\* handle changes nothing; the next get_rancher makes a new handle with a
\* new, open pool.
C10_Singleton ==
    /\ []((closing = <<>> /\ returned # {}) =>
            /\ returned = {rancher_singleton}
            /\ created = 1
            /\ client[rancher_singleton] # 0
            /\ pools[client[rancher_singleton]] = "open")
    /\ [][(GetStep /\ closing = <<>>) =>
            /\ self' = rancher_singleton'
            /\ IF rancher_singleton # 0
               THEN /\ rancher_singleton' = rancher_singleton
                    /\ client' = client /\ pools' = pools
               ELSE /\ rancher_singleton' = Len(client) + 1
                    /\ Len(pools') = Len(pools) + 1
                    /\ client'[rancher_singleton'] = Len(pools')
                    /\ pools'[Len(pools')] = "open"
                    /\ SubSeq(pools', 1, Len(pools)) = pools]_vars
    /\ [][AcloseStep =>
            IF rancher_singleton = 0
            THEN UNCHANGED <<rancher_singleton, client, pools, closing>>
            ELSE /\ pools'[client[rancher_singleton]] = "closed"
                 /\ closing' = Append(closing, rancher_singleton)]_vars
    /\ [][CloseDone =>
            /\ rancher_singleton' = 0
            /\ \E i \in DOMAIN closing :
                  /\ client'[closing[i]] = 0
                  /\ client[closing[i]] # 0 =>
                        pools'[client[closing[i]]] = "closed"]_vars

C10_Witness ==
    /\ calls = 5 /\ op = "get_rancher" /\ closing = <<>>
    /\ pools = <<"closed", "open">> /\ rancher_singleton = 2
    /\ client = <<0, 2>> /\ returned = {2} /\ created = 1

====
